---- MODULE Spec2Model ----
\* State machine of the SketchApp component (src/src/components/sketch.tsx):
\* stroke capture (startDrawing / draw / stopDrawing), the history store
\* (paths, undoStack, redoStack with clearCanvas / undo / redo) and the tool
\* settings.  Every event handler runs to completion and the component is
\* re-rendered before the next event is dispatched, so one handler call is one
\* atomic step that reads the state of the latest render.
EXTENDS Integers, Sequences, FiniteSets, TLC

\* ---------------------------------------------------------------- bounds
\* How many palette entries the colour buttons range over.
NumColors == 2
\* How many distinct pointer positions the mouse events range over.
NumPositions == 2
\* Longest pending point sequence explored.
MaxPoints == 2
\* Deepest undoStack explored.
MaxHistory == 2
\* Deepest undoStack explored while the capture's settings are recorded.
MaxCaptureHistory == 1
\* Largest brush size explored by Spec: the brush buttons are followed while
\* the size stays in InitialBrushSize..MaxBrushExplored.
MaxBrushExplored == 4
\* longest undo stack explored where the whole brush range 1..50 is explored
MaxBrushHistory == 1
\* most points of one stroke where the reported positions are recorded
MaxSamplePoints == 3

\* ------------------------------------------------------ program constants
MinBrushSize == 1
MaxBrushSize == 50
InitialBrushSize == 3

\* The palette offered by the colour buttons.
colors ==
  << "#000000", "#FF0000", "#00FF00", "#0000FF", "#FFFF00",
     "#FF00FF", "#00FFFF", "#FFA500", "#800080", "#FFC0CB" >>

Colors == { colors[i] : i \in 1..NumColors }

Tools == { "pen", "eraser" }

\* Bounding rectangle of the canvas element and the mouse events delivered
\* to it (client coordinates).
Rect == [left |-> 0, top |-> 0]

MouseEvents == { [clientX |-> 10 * i, clientY |-> 10 * i] : i \in 0..(NumPositions - 1) }

VARIABLES
  isDrawing,     \* useState(false)
  currentPath,   \* useState<Point[]>([])
  paths,         \* useState<DrawingPath[]>([])
  undoStack,     \* useState<DrawingPath[][]>([])
  redoStack,     \* useState<DrawingPath[][]>([])
  currentColor,  \* useState("#000000")
  brushSize,     \* useState(3)
  currentTool,   \* useState("pen")
  canvas,        \* the bitmap of the canvas element (canvasRef)
  lastOp,        \* history: the handler that ran last, whether it returned early,
                 \*          and how many redo snapshots it discarded
  justDown,      \* history: the last event was a mousedown received while not drawing
  pointerHeld,   \* history: a mousedown has occurred with no mouseup/mouseleave since
  captured,      \* history: the tool settings at the mousedown of the open capture
  script,        \* history: position in an "N actions, N undos, N redos" run
  samples,       \* history: the positions reported since the mousedown of the open capture
  before,        \* history: what the last undo, redo or brush click started from
  exported       \* the image of sketch.png when the last event was a download

progVars == << isDrawing, currentPath, paths, undoStack, redoStack,
               currentColor, brushSize, currentTool >>

histVars == << paths, undoStack, redoStack >>

captureVars == << isDrawing, currentPath >>

settingsVars == << currentColor, brushSize, currentTool >>

obsVars == << lastOp, justDown, pointerHeld >>

vars == << isDrawing, currentPath, paths, undoStack, redoStack,
           currentColor, brushSize, currentTool,
           canvas, lastOp, justDown, pointerHeld, captured, script,
           samples, before, exported >>

\* ---------------------------------------------------------------- helpers
Last(s) == s[Len(s)]

Front(s) == SubSeq(s, 1, Len(s) - 1)

NoSamples == [open |-> FALSE, points |-> << >>, cleared |-> FALSE]

NoExport == [done |-> FALSE, image |-> << >>]

NoBefore == [prevOp |-> "", hist |-> << >>, undoes |-> FALSE]

NoSettings == [color |-> "", width |-> 0, tool |-> ""]

ToolSettings == [color |-> currentColor, width |-> brushSize, tool |-> currentTool]

\* getPointFromEvent: event position relative to the canvas rectangle.
getPointFromEvent(e) == [x |-> e.clientX - Rect.left, y |-> e.clientY - Rect.top]

\* The DrawingPath built by stopDrawing from the state of the current render.
newPath ==
  [ points |-> currentPath,
    color  |-> IF currentTool = "eraser" THEN "#000000" ELSE currentColor,
    width  |-> brushSize,
    tool   |-> currentTool ]

\* The early return of stopDrawing.
stopDrawingReturns == (~isDrawing) \/ Len(currentPath) = 0

\* The early returns of undo and redo, which the buttons mirror as `disabled`.
undoDisabled == Len(undoStack) = 0

redoDisabled == Len(redoStack) = 0

\* Variant: the oldest snapshot instead of the newest.
previousStateOldest == undoStack[1]

previousState == undoStack[Len(undoStack)]

nextState == redoStack[Len(redoStack)]

\* Math.max(1, Math.min(50, v))
Min(a, b) == IF a < b THEN a ELSE b

Max(a, b) == IF a > b THEN a ELSE b

\* Variant: the adjusted width is not clamped.
clampBrushSizeNone(v) == v

clampBrushSize(v) == Max(MinBrushSize, Min(MaxBrushSize, v))

\* -------------------------------------------------------------- rendering
\* The canvas bitmap, as the pixels at the positions the mouse can report:
\* each is transparent or holds an opaque colour.
Pixels == { getPointFromEvent(e) : e \in MouseEvents }

Transparent == "transparent"

White == "#ffffff"

\* globalCompositeOperation "source-over" and "destination-out" for one pixel.
sourceOver(dst, src) == IF src = Transparent THEN dst ELSE src

destinationOut(dst, src) == IF src = Transparent THEN dst ELSE Transparent

\* The pixels ctx.stroke() touches: those at the points of the path.
Stroked(path) == { path.points[i] : i \in 1..Len(path.points) } \cap Pixels

\* Variant: the eraser paints its stored colour.
drawPathPaintsEraser(ctx, path) ==
  IF Len(path.points) < 2
    THEN ctx
    ELSE [ p \in Pixels |->
             IF p \in Stroked(path) THEN sourceOver(ctx[p], path.color) ELSE ctx[p] ]

drawPath(ctx, path) ==
  IF Len(path.points) < 2
    THEN ctx
    ELSE [ p \in Pixels |->
             IF p \in Stroked(path)
               THEN IF path.tool = "eraser"
                      THEN destinationOut(ctx[p], path.color)
                      ELSE sourceOver(ctx[p], path.color)
               ELSE ctx[p] ]

\* Variant: clearRect leaves the bitmap as it is.
clearRectKeeps(ctx) == ctx

clearRect(ctx) == [ p \in Pixels |-> Transparent ]

\* paths.forEach((path) => drawPath(ctx, path))
RECURSIVE forEachDrawPath(_, _)
forEachDrawPath(ctx, ps) ==
  IF ps = << >> THEN ctx ELSE forEachDrawPath(drawPath(ctx, ps[1]), Tail(ps))

\* The in-progress stroke redrawCanvas draws, with the live tool settings.
currentDrawingPath(cp, color, size, tool) ==
  [ points |-> cp,
    color  |-> IF tool = "eraser" THEN "#000000" ELSE color,
    width  |-> size,
    tool   |-> tool ]

redrawCanvas(ctx, ps, cp, color, size, tool) ==
  LET drawn == forEachDrawPath(clearRect(ctx), ps)
  IN  IF Len(cp) > 1
        THEN drawPath(drawn, currentDrawingPath(cp, color, size, tool))
        ELSE drawn

\* Variant: the exported bitmap gets no white background.
downloadImageNoFill(cv) == cv

\* The bitmap downloadImage serialises: a white fill with the canvas drawn on top.
downloadImage(cv) == [ p \in Pixels |-> sourceOver(White, cv[p]) ]

\* ------------------------------------------------------------------- Init
Init ==
  /\ isDrawing = FALSE
  /\ currentPath = << >>
  /\ paths = << >>
  /\ undoStack = << >>
  /\ redoStack = << >>
  /\ currentColor = "#000000"
  /\ brushSize = InitialBrushSize
  /\ currentTool = "pen"
  /\ canvas = [ p \in Pixels |-> Transparent ]
  /\ lastOp = [name |-> "mount", early |-> FALSE, dropped |-> 0]
  /\ justDown = FALSE
  /\ pointerHeld = FALSE
  /\ captured = NoSettings
  /\ script = [stage |-> "act", n |-> 0, k |-> 0, final |-> << >>]
  /\ samples = NoSamples
  /\ before = NoBefore
  /\ exported = NoExport

\* --------------------------------------------------------------- handlers
\* Each handler constrains the component state only.

startDrawing(e) ==
  /\ isDrawing' = TRUE
  /\ currentPath' = << getPointFromEvent(e) >>
  /\ UNCHANGED << histVars, settingsVars >>

\* Variant: a position equal to the last pending point is not appended.
drawDedupes(e) ==
  IF ~isDrawing
    THEN UNCHANGED progVars
    ELSE /\ currentPath' = IF currentPath # << >> /\ Last(currentPath) = getPointFromEvent(e)
                              THEN currentPath
                              ELSE Append(currentPath, getPointFromEvent(e))
         /\ UNCHANGED << isDrawing, histVars, settingsVars >>

draw(e) ==
  IF ~isDrawing
    THEN UNCHANGED progVars
    ELSE /\ currentPath' = Append(currentPath, getPointFromEvent(e))
         /\ UNCHANGED << isDrawing, histVars, settingsVars >>

\* Variant: the commit leaves redoStack as it is.
stopDrawingKeepsRedo ==
  IF stopDrawingReturns
    THEN UNCHANGED progVars
    ELSE /\ undoStack' = Append(undoStack, paths)
         /\ paths' = Append(paths, newPath)
         /\ currentPath' = << >>
         /\ isDrawing' = FALSE
         /\ UNCHANGED << redoStack, settingsVars >>

\* Variant: the snapshot pushed for undo is taken after the append.
stopDrawingSnapshotsLate ==
  IF stopDrawingReturns
    THEN UNCHANGED progVars
    ELSE /\ undoStack' = Append(undoStack, Append(paths, newPath))
         /\ redoStack' = << >>
         /\ paths' = Append(paths, newPath)
         /\ currentPath' = << >>
         /\ isDrawing' = FALSE
         /\ UNCHANGED settingsVars

\* Variant: the commit leaves the pending points in currentPath.
stopDrawingKeepsPoints ==
  IF stopDrawingReturns
    THEN UNCHANGED progVars
    ELSE /\ undoStack' = Append(undoStack, paths)
         /\ redoStack' = << >>
         /\ paths' = Append(paths, newPath)
         /\ isDrawing' = FALSE
         /\ UNCHANGED << currentPath, settingsVars >>

stopDrawing ==
  IF stopDrawingReturns
    THEN UNCHANGED progVars
    ELSE /\ undoStack' = Append(undoStack, paths)
         /\ redoStack' = << >>
         /\ paths' = Append(paths, newPath)
         /\ currentPath' = << >>
         /\ isDrawing' = FALSE
         /\ UNCHANGED settingsVars

\* Variant: clearing an already empty drawing records no snapshot.
clearCanvasSkipsEmpty ==
  /\ undoStack' = IF paths = << >> THEN undoStack ELSE Append(undoStack, paths)
  /\ redoStack' = << >>
  /\ paths' = << >>
  /\ currentPath' = << >>
  /\ UNCHANGED << isDrawing, settingsVars >>

clearCanvas ==
  /\ undoStack' = Append(undoStack, paths)
  /\ redoStack' = << >>
  /\ paths' = << >>
  /\ currentPath' = << >>
  /\ UNCHANGED << isDrawing, settingsVars >>

\* Variant: the displaced drawing is not kept for redo.
undoForgets ==
  IF undoDisabled
    THEN UNCHANGED progVars
    ELSE /\ paths' = previousState
         /\ undoStack' = Front(undoStack)
         /\ UNCHANGED << redoStack, captureVars, settingsVars >>

\* Variant: no early return on an empty undoStack.
undoUnguarded ==
  /\ redoStack' = Append(redoStack, paths)
  /\ paths' = IF undoDisabled THEN << >> ELSE previousState
  /\ undoStack' = IF undoDisabled THEN << >> ELSE Front(undoStack)
  /\ UNCHANGED << captureVars, settingsVars >>

undo ==
  IF undoDisabled
    THEN UNCHANGED progVars
    ELSE /\ redoStack' = Append(redoStack, paths)
         /\ paths' = previousState
         /\ undoStack' = Front(undoStack)
         /\ UNCHANGED << captureVars, settingsVars >>

\* Variant: the displaced drawing is not kept for undo.
redoForgets ==
  IF redoDisabled
    THEN UNCHANGED progVars
    ELSE /\ paths' = nextState
         /\ redoStack' = Front(redoStack)
         /\ UNCHANGED << undoStack, captureVars, settingsVars >>

redo ==
  IF redoDisabled
    THEN UNCHANGED progVars
    ELSE /\ undoStack' = Append(undoStack, paths)
         /\ paths' = nextState
         /\ redoStack' = Front(redoStack)
         /\ UNCHANGED << captureVars, settingsVars >>

adjustBrushSize(delta) ==
  /\ brushSize' = clampBrushSize(brushSize + delta)
  /\ UNCHANGED << captureVars, histVars, currentColor, currentTool >>

setCurrentTool(t) ==
  /\ currentTool' = t
  /\ UNCHANGED << captureVars, histVars, currentColor, brushSize >>

setCurrentColor(c) ==
  /\ currentColor' = c
  /\ UNCHANGED << captureVars, histVars, brushSize, currentTool >>

\* ----------------------------------------------------------------- events
\* One action per event of the rendered component (the canvas handlers and the
\* toolbar buttons); each runs its handler,
\* redraws the canvas and records lastOp, justDown and pointerHeld.

\* useEffect: the render that follows the handler redraws the canvas.
Rendered ==
  canvas' = redrawCanvas(canvas, paths', currentPath', currentColor', brushSize', currentTool')

Ran(name, early, dropped) ==
  /\ lastOp' = [name |-> name, early |-> early, dropped |-> dropped]
  /\ Rendered

MouseDown(e) ==
  /\ startDrawing(e)
  /\ Ran("startDrawing", FALSE, 0)
  /\ justDown' = ~isDrawing
  /\ pointerHeld' = TRUE

MouseMove(e) ==
  /\ isDrawing => Len(currentPath) < MaxPoints
  /\ draw(e)
  /\ Ran("draw", ~isDrawing, 0)
  /\ justDown' = FALSE
  /\ UNCHANGED pointerHeld

MouseUp ==
  /\ stopDrawingReturns \/ Len(undoStack) < MaxHistory
  /\ stopDrawing
  /\ Ran("stopDrawing", stopDrawingReturns, IF stopDrawingReturns THEN 0 ELSE Len(redoStack))
  /\ justDown' = FALSE
  /\ pointerHeld' = FALSE

MouseLeave ==
  /\ stopDrawingReturns \/ Len(undoStack) < MaxHistory
  /\ stopDrawing
  /\ Ran("stopDrawing", stopDrawingReturns, IF stopDrawingReturns THEN 0 ELSE Len(redoStack))
  /\ justDown' = FALSE
  /\ pointerHeld' = FALSE

ClickClear ==
  /\ Len(undoStack) < MaxHistory
  /\ clearCanvas
  /\ Ran("clearCanvas", FALSE, Len(redoStack))
  /\ justDown' = FALSE
  /\ UNCHANGED pointerHeld

ClickUndo ==
  /\ undo
  /\ Ran("undo", undoDisabled, 0)
  /\ justDown' = FALSE
  /\ UNCHANGED pointerHeld

ClickRedo ==
  /\ redo
  /\ Ran("redo", redoDisabled, 0)
  /\ justDown' = FALSE
  /\ UNCHANGED pointerHeld

ClickBrush(delta) ==
  /\ clampBrushSize(brushSize + delta) \in InitialBrushSize..MaxBrushExplored
  /\ adjustBrushSize(delta)
  /\ Ran("settings", FALSE, 0)
  /\ justDown' = FALSE
  /\ UNCHANGED pointerHeld

ClickTool(t) ==
  /\ setCurrentTool(t)
  /\ Ran("settings", FALSE, 0)
  /\ justDown' = FALSE
  /\ UNCHANGED pointerHeld

ClickColor(c) ==
  /\ setCurrentColor(c)
  /\ Ran("settings", FALSE, 0)
  /\ justDown' = FALSE
  /\ UNCHANGED pointerHeld

SettingsEvent ==
  \/ \E d \in { -1, 1 } : ClickBrush(d)
  \/ \E t \in Tools : ClickTool(t)
  \/ \E c \in Colors : ClickColor(c)

\* A mouseup or mouseleave that commits, and one that stopDrawing ignores.
Commits == (MouseUp \/ MouseLeave) /\ ~stopDrawingReturns

StopIgnored == (MouseUp \/ MouseLeave) /\ stopDrawingReturns

Next ==
  \/ \E e \in MouseEvents : MouseDown(e) /\ UNCHANGED << captured, script, samples, before, exported >>
  \/ \E e \in MouseEvents : MouseMove(e) /\ UNCHANGED << captured, script, samples, before, exported >>
  \/ MouseUp /\ UNCHANGED << captured, script, samples, before, exported >>
  \/ MouseLeave /\ UNCHANGED << captured, script, samples, before, exported >>
  \/ \E d \in { -1, 1 } : ClickBrush(d) /\ UNCHANGED << captured, script, samples, before, exported >>
  \/ \E t \in Tools : ClickTool(t) /\ UNCHANGED << captured, script, samples, before, exported >>
  \/ \E c \in Colors : ClickColor(c) /\ UNCHANGED << captured, script, samples, before, exported >>
  \/ ClickClear /\ UNCHANGED << captured, script, samples, before, exported >>
  \/ ClickUndo /\ UNCHANGED << captured, script, samples, before, exported >>
  \/ ClickRedo /\ UNCHANGED << captured, script, samples, before, exported >>

Spec == Init /\ [][Next]_vars

\* ------------------------------------------------------------- download
\* The download button. The handler reads the canvas and writes a file; it
\* sets no state, so no render follows.
ClickDownload ==
  /\ exported' = [done |-> TRUE, image |-> downloadImage(canvas)]
  /\ lastOp' = [name |-> "downloadImage", early |-> FALSE, dropped |-> 0]
  /\ justDown' = FALSE
  /\ UNCHANGED << progVars, canvas, pointerHeld, captured, script, samples, before >>

\* Any other event: the file of an earlier download is no longer observed.
NotDownload == exported' = NoExport /\ UNCHANGED << captured, script, samples, before >>

\* Line width does not reach the pixel abstraction, so the brush buttons are
\* left out of this specification.
NextExport ==
  \/ ClickDownload
  \/ \E e \in MouseEvents : MouseDown(e) /\ NotDownload
  \/ \E e \in MouseEvents : MouseMove(e) /\ NotDownload
  \/ MouseUp /\ NotDownload
  \/ MouseLeave /\ NotDownload
  \/ \E t \in Tools : ClickTool(t) /\ NotDownload
  \/ \E c \in Colors : ClickColor(c) /\ NotDownload
  \/ ClickClear /\ NotDownload
  \/ ClickUndo /\ NotDownload
  \/ ClickRedo /\ NotDownload

SpecExport == Init /\ [][NextExport]_vars

\* ------------------------------------------------------- whole brush range
\* The brush buttons over the whole range of widths, with strokes drawn and
\* undone in between; `before` records the width a brush click started from
\* and its delta.
AdjustBrush(delta) ==
  /\ adjustBrushSize(delta)
  /\ Ran("settings", FALSE, 0)
  /\ justDown' = FALSE
  /\ before' = [prevOp |-> "adjustBrushSize", hist |-> << brushSize, delta >>, undoes |-> FALSE]
  /\ UNCHANGED << pointerHeld, captured, script, samples, exported >>

\* Any other event: nothing is recorded in `before`.
ForgetsBefore == before' = NoBefore /\ UNCHANGED << captured, script, samples, exported >>

NextBrush ==
  \/ \E d \in { -1, 1 } : AdjustBrush(d)
  \/ \E e \in MouseEvents : MouseDown(e) /\ ForgetsBefore
  \/ \E e \in MouseEvents : MouseMove(e) /\ ForgetsBefore
  \/ MouseUp /\ Len(undoStack') <= MaxBrushHistory /\ ForgetsBefore
  \/ MouseLeave /\ Len(undoStack') <= MaxBrushHistory /\ ForgetsBefore
  \/ ClickUndo /\ ForgetsBefore
  \/ ClickRedo /\ ForgetsBefore

SpecBrush == Init /\ [][NextBrush]_vars

\* ------------------------------------------------------ reported positions
\* The capture events, with `samples` recording the position of the last
\* mousedown and of every mousemove received after it, until the mouseup or
\* mouseleave that commits; a clear in between is noted and ends the record.
SampleDown(e) ==
  /\ MouseDown(e)
  /\ samples' = [open |-> TRUE, points |-> << getPointFromEvent(e) >>, cleared |-> FALSE]
  /\ UNCHANGED << captured, script, before, exported >>

SampleMove(e) ==
  /\ isDrawing => Len(currentPath) < MaxSamplePoints
  /\ draw(e)
  /\ Ran("draw", ~isDrawing, 0)
  /\ justDown' = FALSE
  /\ samples' = IF samples.open /\ ~samples.cleared
                  THEN [samples EXCEPT !.points = Append(@, getPointFromEvent(e))]
                  ELSE samples
  /\ UNCHANGED << pointerHeld, captured, script, before, exported >>

SampleStop ==
  /\ MouseUp \/ MouseLeave
  /\ Len(undoStack') <= MaxCaptureHistory
  /\ samples' = IF stopDrawingReturns THEN samples ELSE NoSamples
  /\ UNCHANGED << captured, script, before, exported >>

SampleClear ==
  /\ ClickClear
  /\ Len(undoStack') <= MaxCaptureHistory
  /\ samples' = IF samples.open
                  THEN [open |-> TRUE, points |-> << >>, cleared |-> TRUE]
                  ELSE samples
  /\ UNCHANGED << captured, script, before, exported >>

NextSamples ==
  \/ \E e \in MouseEvents : SampleDown(e)
  \/ \E e \in MouseEvents : SampleMove(e)
  \/ SampleStop
  \/ SampleClear
  \/ ClickUndo /\ UNCHANGED << captured, script, samples, before, exported >>
  \/ ClickRedo /\ UNCHANGED << captured, script, samples, before, exported >>

SpecSamples == Init /\ [][NextSamples]_vars

\* ------------------------------------------------------- undo then redo
\* Drawing, clearing, undo and redo, with `before` recording paths and both
\* stacks as they were before the last undo or redo that was not a no-op,
\* and whether that step directly followed a step of the opposite kind.
\* Tool settings stay at their initial values here.
InverseUndo ==
  /\ ClickUndo
  /\ before' = IF undoDisabled
                 THEN NoBefore
                 ELSE [prevOp |-> "undo", hist |-> histVars, undoes |-> before.prevOp = "redo"]
  /\ UNCHANGED << captured, script, samples, exported >>

InverseRedo ==
  /\ ClickRedo
  /\ before' = IF redoDisabled
                 THEN NoBefore
                 ELSE [prevOp |-> "redo", hist |-> histVars, undoes |-> before.prevOp = "undo"]
  /\ UNCHANGED << captured, script, samples, exported >>

NextInverse ==
  \/ InverseUndo
  \/ InverseRedo
  \/ \E e \in MouseEvents : MouseDown(e) /\ ForgetsBefore
  \/ \E e \in MouseEvents : MouseMove(e) /\ ForgetsBefore
  \/ MouseUp /\ ForgetsBefore
  \/ MouseLeave /\ ForgetsBefore
  \/ ClickClear /\ ForgetsBefore

SpecInverse == Init /\ [][NextInverse]_vars

\* ------------------------------------------------- capture with settings
\* The same events, with the tool settings in force at the mousedown that
\* opened the capture recorded in `captured` until the capture is committed.
CaptureStart(e) ==
  /\ MouseDown(e)
  /\ captured' = ToolSettings
  /\ UNCHANGED << script, samples, before, exported >>

CaptureStop ==
  /\ MouseUp \/ MouseLeave
  /\ Len(undoStack') <= MaxCaptureHistory
  /\ captured' = IF stopDrawingReturns THEN captured ELSE NoSettings
  /\ UNCHANGED << script, samples, before, exported >>

NextCapture ==
  \/ \E e \in MouseEvents : CaptureStart(e)
  \/ CaptureStop
  \/ \E e \in MouseEvents : MouseMove(e) /\ UNCHANGED << captured, script, samples, before, exported >>
  \/ \E d \in { -1, 1 } : ClickBrush(d) /\ UNCHANGED << captured, script, samples, before, exported >>
  \/ \E t \in Tools : ClickTool(t) /\ UNCHANGED << captured, script, samples, before, exported >>
  \/ \E c \in Colors : ClickColor(c) /\ UNCHANGED << captured, script, samples, before, exported >>
  \/ ClickClear /\ Len(undoStack') <= MaxCaptureHistory /\ UNCHANGED << captured, script, samples, before, exported >>
  \/ ClickUndo /\ UNCHANGED << captured, script, samples, before, exported >>
  \/ ClickRedo /\ UNCHANGED << captured, script, samples, before, exported >>

SpecCapture == Init /\ [][NextCapture]_vars

\* ---------------------------------------------------- history round trip
\* Runs of the form: N commit/clear actions (with the pointer and settings
\* events they need), then N undos, then N redos.  script.n counts the
\* actions, script.final is the drawing after the last of them, script.k
\* counts the undos, then the redos.
RoundTripAction ==
  /\ script.stage = "act"
  /\ ClickClear \/ Commits
  /\ script' = [script EXCEPT !.n = @ + 1, !.final = paths']
  /\ UNCHANGED << captured, samples, before, exported >>

RoundTripOther ==
  /\ script.stage = "act"
  /\ \/ \E e \in MouseEvents : MouseDown(e)
     \/ \E e \in MouseEvents : MouseMove(e)
     \/ StopIgnored
     \/ SettingsEvent
  /\ UNCHANGED << captured, script, samples, before, exported >>

RoundTripUndo ==
  /\ script.stage \in { "act", "undo" }
  /\ script.k < script.n
  /\ ClickUndo
  /\ script' = [script EXCEPT !.stage = "undo", !.k = @ + 1]
  /\ UNCHANGED << captured, samples, before, exported >>

RoundTripFirstRedo ==
  /\ script.stage = "undo"
  /\ script.k = script.n
  /\ ClickRedo
  /\ script' = [script EXCEPT !.stage = "redo", !.k = 1]
  /\ UNCHANGED << captured, samples, before, exported >>

RoundTripRedo ==
  /\ script.stage = "redo"
  /\ script.k < script.n
  /\ ClickRedo
  /\ script' = [script EXCEPT !.k = @ + 1]
  /\ UNCHANGED << captured, samples, before, exported >>

NextRoundTrip ==
  \/ RoundTripAction
  \/ RoundTripOther
  \/ RoundTripUndo
  \/ RoundTripFirstRedo
  \/ RoundTripRedo

SpecRoundTrip == Init /\ [][NextRoundTrip]_vars

\* ================================================================= claims

\* C1 (history round trip): after N commit/clear actions from the initial
\* state, N undos leave paths empty, and N redos after them leave paths equal
\* to the drawing that existed right after the N-th action.
C1_RoundTrip ==
  /\ (script.stage = "undo" /\ script.k = script.n) => paths = << >>
  /\ (script.stage = "redo" /\ script.k = script.n) => paths = script.final

\* Two actions, two undos and two redos have run, and a two-stroke drawing is back.
C1_Witness ==
  /\ script.stage = "redo"
  /\ script.n = 2
  /\ script.k = 2
  /\ Len(paths) = 2

AnyMouseDown == \E e \in MouseEvents : MouseDown(e)

AnyMouseMove == \E e \in MouseEvents : MouseMove(e)

Committed == lastOp.name = "stopDrawing" /\ ~lastOp.early

Cleared == lastOp.name = "clearCanvas"

\* C2 (redo invalidation): a stroke commit or a clear leaves redoStack empty,
\* and a redo issued right after one changes none of paths, undoStack, redoStack.
C2_RedoInvalidation ==
  [][ /\ (Commits \/ ClickClear) => redoStack' = << >>
      /\ ((Committed \/ Cleared) /\ ClickRedo) => UNCHANGED histVars ]_vars

\* A commit has just discarded the redo snapshots left by earlier undos.
C2_Witness ==
  /\ Committed
  /\ lastOp.dropped > 0
  /\ redoStack = << >>

\* C3 (single-point discard): a mousedown received while idle, followed at
\* once by mouseup or mouseleave, leaves paths, undoStack and redoStack as
\* they were before the mousedown.
C3_SinglePointDiscard ==
  [][ /\ AnyMouseDown => UNCHANGED histVars
      /\ (justDown /\ (MouseUp \/ MouseLeave)) => UNCHANGED histVars ]_vars

StrokesOf(drawing) == { drawing[i] : i \in 1..Len(drawing) }

AllDrawings ==
  { paths } \cup { undoStack[i] : i \in 1..Len(undoStack) }
            \cup { redoStack[i] : i \in 1..Len(redoStack) }

AllStrokes == UNION { StrokesOf(d) : d \in AllDrawings }

\* C4: every stroke of paths and of every snapshot in undoStack and redoStack
\* has at least 2 points.
C4_StrokesHaveTwoPoints == \A s \in AllStrokes : Len(s.points) >= 2

\* C5 (attributes fixed at capture start): the colour, width and tool of a
\* committed stroke are the tool settings that were in force at the mousedown
\* that started it.
C5_AttributesFixedAtStart ==
  [][ Commits =>
        /\ paths'[Len(paths')].color = captured.color
        /\ paths'[Len(paths')].width = captured.width
        /\ paths'[Len(paths')].tool = captured.tool ]_vars

\* C6 (capture ends on release): a mouseup or mouseleave received while
\* isDrawing leaves isDrawing false and currentPath empty.
C6_ReleaseEndsCapture ==
  [][ (isDrawing /\ (MouseUp \/ MouseLeave)) =>
        (~isDrawing' /\ currentPath' = << >>) ]_vars

\* C7 (idle guard): when no mousedown has occurred since the last mouseup or
\* mouseleave (or none at all), a mousemove, mouseup or mouseleave changes
\* none of currentPath, isDrawing, paths, undoStack, redoStack.
C7_IdleGuard ==
  [][ (~pointerHeld /\ (AnyMouseMove \/ MouseUp \/ MouseLeave)) =>
        UNCHANGED << captureVars, histVars >> ]_vars

\* C8 (undo/redo step): undo on a non-empty undoStack makes the top snapshot
\* the drawing, removes exactly that entry and puts the displaced drawing on
\* top of redoStack; redo does the same with the stacks exchanged.
C8_UndoRedoStep ==
  [][ /\ (ClickUndo /\ Len(undoStack) > 0) =>
            /\ paths' = Last(undoStack)
            /\ undoStack' = Front(undoStack)
            /\ redoStack' = Append(redoStack, paths)
      /\ (ClickRedo /\ Len(redoStack) > 0) =>
            /\ paths' = Last(redoStack)
            /\ redoStack' = Front(redoStack)
            /\ undoStack' = Append(undoStack, paths) ]_vars

\* Commit A, commit B, undo, redo: the drawing is [A, B] again, over the
\* snapshots [] and [A].
C8_Witness ==
  /\ lastOp.name = "redo"
  /\ ~lastOp.early
  /\ Len(paths) = 2
  /\ paths[1] # paths[2]
  /\ undoStack = << << >>, << paths[1] >> >>
  /\ redoStack = << >>

\* C9: undo on an empty undoStack and redo on an empty redoStack change
\* nothing of the component state, and each button is enabled exactly when its
\* stack is non-empty.
C9_EmptyStackNoOp ==
  /\ [][ /\ (ClickUndo /\ undoStack = << >>) => UNCHANGED progVars
         /\ (ClickRedo /\ redoStack = << >>) => UNCHANGED progVars ]_vars
  /\ [](/\ ~undoDisabled <=> undoStack # << >>
        /\ ~redoDisabled <=> redoStack # << >>)

\* undo has just returned early while a capture with a pending point was open.
C9_Witness ==
  /\ lastOp.name = "undo"
  /\ lastOp.early
  /\ undoStack = << >>
  /\ isDrawing
  /\ Len(currentPath) = 1

\* C10 (commit step): a capture ending with at least 2 pending points appends
\* exactly one stroke, made of those points, after the unchanged earlier
\* strokes, and pushes exactly one snapshot, the drawing before the commit,
\* on top of the unchanged undoStack.
C10_CommitStep ==
  [][ (Commits /\ Len(currentPath) >= 2) =>
        /\ Len(paths') = Len(paths) + 1
        /\ SubSeq(paths', 1, Len(paths)) = paths
        /\ paths'[Len(paths')].points = currentPath
        /\ Len(undoStack') = Len(undoStack) + 1
        /\ SubSeq(undoStack', 1, Len(undoStack)) = undoStack
        /\ undoStack'[Len(undoStack')] = paths ]_vars

\* A second stroke of two points has just been committed over a first one.
C10_Witness ==
  /\ Committed
  /\ Len(paths) = 2
  /\ Len(paths[2].points) = 2
  /\ undoStack = << << >>, << paths[1] >> >>

\* C11 (clear is recorded): clearCanvas, also on an empty drawing, pushes
\* exactly one snapshot equal to the drawing before it and empties paths; an
\* undo right after a clear of the initial state leaves paths empty and
\* undoStack empty.
C11_ClearRecorded ==
  [][ /\ ClickClear =>
            /\ undoStack' = Append(undoStack, paths)
            /\ paths' = << >>
      /\ (Cleared /\ undoStack = << << >> >> /\ ClickUndo) =>
            /\ paths' = << >>
            /\ undoStack' = << >> ]_vars

\* The empty drawing has just been cleared: its snapshot is on undoStack.
C11_Witness ==
  /\ Cleared
  /\ paths = << >>
  /\ undoStack = << << >> >>

\* C18: while a stroke is being captured (isDrawing), currentPath has at
\* least 1 point.
C18_CapturingHasPoint == isDrawing => Len(currentPath) >= 1

\* C19: while no stroke is being captured (isDrawing false), currentPath is
\* empty.
C19_IdleHasNoPoints == (~isDrawing) => currentPath = << >>

\* A capture has just been committed and left the machine idle.
C19_Witness ==
  /\ Committed
  /\ ~isDrawing
  /\ currentPath = << >>
  /\ Len(paths) = 1

\* What the canvas shows: the committed strokes in commit order, then the
\* in-progress stroke when it has 2 or more pending points.
Layers ==
  paths \o ( IF Len(currentPath) >= 2
               THEN << currentDrawingPath(currentPath, currentColor, brushSize, currentTool) >>
               ELSE << >> )

\* A layer marks a pixel when it is drawn (2 or more points) and passes through it.
Marks(layer, p) ==
  /\ Len(layer.points) >= 2
  /\ \E i \in 1..Len(layer.points) : layer.points[i] = p

\* The last layer of the sequence that marks p (0 when none does).
TopLayer(layers, p) ==
  LET marking == { i \in 1..Len(layers) : Marks(layers[i], p) }
  IN  IF marking = { } THEN 0 ELSE CHOOSE i \in marking : \A j \in marking : j <= i

\* The pixel left by painting the layers in order on a cleared surface.
Composite(layers, p) ==
  LET top == TopLayer(layers, p)
  IN  IF top = 0 \/ layers[top].tool = "eraser" THEN Transparent ELSE layers[top].color

\* C14 (eraser reveals): a pixel marked by an eraser stroke and by no pen
\* stroke later in the drawing order is transparent on the rendered canvas.
C14_EraserReveals ==
  \A p \in Pixels : \A i \in 1..Len(Layers) :
    ( /\ Layers[i].tool = "eraser"
      /\ Marks(Layers[i], p)
      /\ ~ \E j \in (i + 1)..Len(Layers) : Layers[j].tool = "pen" /\ Marks(Layers[j], p) )
    => canvas[p] = Transparent

\* A committed eraser stroke has erased a pixel that a committed pen stroke painted.
C14_Witness ==
  /\ Len(paths) = 2
  /\ currentPath = << >>
  /\ paths[1].tool = "pen"
  /\ paths[2].tool = "eraser"
  /\ \E p \in Pixels :
        /\ Marks(paths[1], p)
        /\ Marks(paths[2], p)
        /\ canvas[p] = Transparent

\* C17 (render order): the canvas is the cleared surface with the strokes of
\* paths painted in index order and the in-progress stroke painted last iff
\* it has 2 or more pending points; nothing of an earlier render remains.
C17_RenderOrder == \A p \in Pixels : canvas[p] = Composite(Layers, p)

\* The in-progress pen stroke is painted over a committed pen stroke of
\* another colour.
C17_Witness ==
  /\ isDrawing
  /\ Len(currentPath) = 2
  /\ Len(paths) >= 1
  /\ paths[1].tool = "pen"
  /\ currentTool = "pen"
  /\ currentColor # paths[1].color
  /\ \E p \in Pixels :
        /\ Marks(paths[1], p)
        /\ \E i \in 1..Len(currentPath) : currentPath[i] = p
        /\ canvas[p] = currentColor

\* The flattened image of a drawing: white wherever the drawing is transparent.
Flattened(drawing, p) ==
  IF Composite(drawing, p) = Transparent THEN White ELSE Composite(drawing, p)

\* C13 (export contains committed strokes only): a downloaded image is the
\* white background plus exactly the strokes of paths, also when the download
\* happens during a capture with 2 or more pending points.
C13_ExportCommittedOnly ==
  exported.done => \A p \in Pixels : exported.image[p] = Flattened(paths, p)

\* C15 (export flattening): every pixel of a downloaded image is opaque; a
\* pixel transparent on the canvas is white in the image and a pixel of
\* colour C on the canvas is C in the image.
C15_ExportFlattening ==
  exported.done =>
    \A p \in Pixels :
      /\ exported.image[p] # Transparent
      /\ canvas[p] = Transparent => exported.image[p] = White
      /\ canvas[p] # Transparent => exported.image[p] = canvas[p]

\* A download of a drawing in which an eraser stroke erased one pixel of a
\* pen stroke and left another: the erased pixel is white in the image, the
\* other keeps the pen colour.
C15_Witness ==
  /\ exported.done
  /\ Len(paths) = 2
  /\ currentPath = << >>
  /\ paths[1].tool = "pen"
  /\ paths[2].tool = "eraser"
  /\ \E p, q \in Pixels :
        /\ Marks(paths[1], p) /\ Marks(paths[2], p)
        /\ Marks(paths[1], q) /\ ~Marks(paths[2], q)
        /\ canvas[p] = Transparent
        /\ exported.image[p] = White
        /\ exported.image[q] = paths[1].color

\* C12 (brush width range): brushSize is an integer in 1..50 after any
\* sequence of +1/-1 clicks, and so is the width of every stroke of paths
\* and of every snapshot in undoStack and redoStack.
C12_BrushWidthRange ==
  /\ brushSize \in MinBrushSize..MaxBrushSize
  /\ \A s \in AllStrokes : s.width \in MinBrushSize..MaxBrushSize

\* A +1 click at width 50 has left the width at 50, and a stroke drawn at
\* width 1 is in the history.
C12_Witness ==
  /\ before.prevOp = "adjustBrushSize"
  /\ before.hist = << MaxBrushSize, 1 >>
  /\ brushSize = MaxBrushSize
  /\ \E s \in AllStrokes : s.width = MinBrushSize

\* C16 (point accumulation): with no clear since the mousedown, the points of
\* a committed stroke are the mousedown position followed by the position of
\* every mousemove received since, in event order, none dropped or merged.
C16_PointAccumulation ==
  [][ (Commits /\ ~samples.cleared)
        => /\ samples.open
           /\ Last(paths').points = samples.points ]_vars

\* A committed stroke of three points whose last two moves reported the
\* same position, away from the mousedown position.
C16_Witness ==
  /\ Committed
  /\ paths # << >>
  /\ Len(Last(paths).points) = 3
  /\ Last(paths).points[1] # Last(paths).points[2]
  /\ Last(paths).points[2] = Last(paths).points[3]

\* C20 (implicit): in any reachable state, a redo directly after an undo
\* that took effect restores paths, undoStack and redoStack to what they
\* were before the undo; an undo directly after a redo that took effect
\* restores them likewise; and every undo and redo leaves
\* Len(undoStack) + Len(redoStack) unchanged.
C20_UndoRedoInverse ==
  [][ /\ (before.prevOp = "undo" /\ ClickRedo) => histVars' = before.hist
      /\ (before.prevOp = "redo" /\ ClickUndo) => histVars' = before.hist
      /\ (ClickUndo \/ ClickRedo)
           => Len(undoStack') + Len(redoStack') = Len(undoStack) + Len(redoStack) ]_vars

\* A redo has directly followed an undo, from a state in the middle of the
\* history: a drawing on the canvas and snapshots on both stacks.
C20_Witness ==
  /\ before.prevOp = "redo"
  /\ before.undoes
  /\ paths # << >>
  /\ undoStack # << >>
  /\ redoStack # << >>

====
